---- MODULE Spec2Model ----
(***************************************************************************)
(* Model of the credential/session lifecycle manager of google-mcp:       *)
(* class GoogleOAuth in src/src/auth/oauth.ts.                             *)
(*                                                                         *)
(* The process is single-threaded and event-driven.  A public method runs  *)
(* atomically up to the next await on a remote call (refreshAccessToken,  *)
(* getToken) or on the consent promise; the continuation after such an    *)
(* await is a separate step, so calls interleave exactly at those points. *)
(***************************************************************************)
EXTENDS Integers, FiniteSets, Sequences, TLC

\* ---------------------------------------------------------------- bounds
MaxCalls == 2      \* public method invocations in one run
MaxTok == 3        \* highest token-set number (1 is the one found at start)
MaxTime == 3       \* last instant of the clock (Date.now())
MaxReq == 2        \* HTTP requests that reach the callback listeners in one run
StartTime == 2     \* Date.now() at process start
TokenLife == 1     \* lifetime of an issued access credential, in clock ticks
DeclaredPort == 8080   \* port of the redirect target a "valid" identity declares
MaxEnsure == 4     \* ensureDirectoriesExist() invocations in one run
MaxStr == 2        \* characters in a string field of a session
MaxExpiry == 11    \* largest expiry instant of a session
MaxTabs == 3       \* tabs in a document
MaxId == 4         \* tab identifiers

\* ---------------------------------------------------------- constants
DefaultRedirectPort == 3000   \* "http://localhost:3000/oauth2callback"
ListenPort == 3000            \* server.listen(3000, ...)

Calls == 1..MaxCalls

\* ---------------------------------------------------------------- values
\* Auth.Credentials: at = access credential with its refresh credential
\* (0: none, the object {}), exp = expiry_date (0: missing, falsy in the code)
NoTok == [at |-> 0, exp |-> 0]

\* the session file: absent, unparsable, or a JSON document
AbsentFile == [st |-> "absent", tok |-> NoTok]
CorruptFile == [st |-> "corrupt", tok |-> NoTok]
JsonFile(t) == [st |-> "ok", tok |-> t]

\* this.oauth2Client: set = FALSE is null; port = the port of the redirect
\* target the client was constructed with
NullClient == [set |-> FALSE, creds |-> NoTok, port |-> 0]

\* identity file: "none" (missing or unparsable: loadCredentials() is null),
\* "partial" (parsable, client_id or client_secret missing), "noredirect"
\* (client_id and client_secret, no redirect_uris), "valid" (complete, its
\* first redirect target on DeclaredPort)
CredStates == {"none", "partial", "noredirect", "valid"}

\* the identity files that declare a redirect target whenever they are complete
DeclaredStates == CredStates \ {"noredirect"}

\* a call: op = the public method, pc = where it is suspended ("refresh",
\* "exchange", "flow") or "done", ret = what the consent promise of an
\* authenticate() call resolved to.  A call that returned without starting a
\* consent flow leaves nothing behind.  wrote = the call has written the
\* session file and is still running.
IdleCall == [op |-> "none", pc |-> "idle", ret |-> "none", wrote |-> FALSE]
DoneCall == [op |-> "none", pc |-> "done", ret |-> "none", wrote |-> FALSE]

\* an authorization URL: the redirect target of the client that built it and
\* the options given to generateAuthUrl
NoUrl == [redirect |-> 0, access |-> "", scope |-> "", prompt |-> ""]

VARIABLES
    credFile,         \* content class of CREDENTIALS_PATH
    tokenFile,        \* content of TOKEN_PATH
    client,           \* this.oauth2Client
    isAuthenticated,  \* this.isAuthenticated
    now,              \* Date.now()
    issued,           \* number of the last token set issued remotely
    call,             \* call[c]: the c-th public method invocation
    nCalls,           \* invocations started so far
    srv,              \* srv[c]: the http.Server created by authenticate call c
    closes,           \* closes[c]: server.close() invocations on that server
    timer,            \* timer[c]: the setTimeout of authenticate call c
    reqs,             \* reqs[c]: callback handlers suspended in getToken
    nReq,             \* requests received by the callback listeners so far
    revokes,          \* revoke requests in flight
    crashed,          \* the process died on an uncaught error
    ev,               \* what the step just taken did (history)
    dirs,             \* the two directories and this.directoriesInitialized
    rt,               \* a session, the document saved from it, what it loads as
    tabq              \* a document's tabs, a tab id asked for, the answer

mainVars == <<credFile, tokenFile, client, isAuthenticated, now, issued, call,
              nCalls, srv, closes, timer, reqs, nReq, revokes, crashed, ev>>
sideVars == <<dirs, rt, tabq>>
vars == <<mainVars, sideVars>>

fileVars == <<credFile, tokenFile>>
flowVars == <<srv, closes, timer, reqs, nReq>>
procVars == <<revokes, crashed>>

\* ev: op/c/ret = the public method call that returned in this step and its
\* result ("none": nothing returned), via = the event that made it return,
\* flow = a consent flow was started (server created), opened = the browser
\* was launched, refresh = a refresh exchange settled ("ok", "fail"),
\* wrote = the session file was written, over a file that was in state before,
\* init = the step ran the synchronous part of initialize(), built = it
\* constructed a new OAuth2 client, url = the authorization URL it opened or
\* returned, callWrote = the call that returned had written the session file,
\* tool = the tool a CallTool request named, isError and text = its result,
\* service = the request invoked an operation of a Google service
NoEv == [op |-> "none", c |-> 0, ret |-> "none", via |-> "none",
         flow |-> FALSE, opened |-> FALSE, refresh |-> "none",
         wrote |-> FALSE, before |-> "none", init |-> FALSE,
         built |-> FALSE, url |-> NoUrl, callWrote |-> FALSE,
         tool |-> "none", isError |-> FALSE, text |-> <<>>,
         service |-> FALSE]
RetEv(op, c, ret, via) ==
    IF ret = "none" THEN NoEv
    ELSE [NoEv EXCEPT !.op = op, !.c = c, !.ret = ret, !.via = via]

\* ------------------------------------------------------- store helpers
\* an initialize() without its client_id/client_secret test
IdentityOkUnchecked == credFile # "none"

\* loadCredentials + the client_id/client_secret test of initialize()
IdentityOk == credFile \in {"noredirect", "valid"}

\* the port in redirect_uris?.[0] || "http://localhost:3000/oauth2callback"
RedirectPort ==
    IF credFile = "valid" THEN DeclaredPort ELSE DefaultRedirectPort

\* a loadTokens() without its try/catch: the unparsable file is handed on
loadTokensNoCatch ==
    IF tokenFile.st # "absent" THEN [found |-> TRUE, tok |-> tokenFile.tok]
    ELSE [found |-> FALSE, tok |-> NoTok]

\* loadTokens(): null (here: found = FALSE) on a missing or unparsable file
loadTokens ==
    IF tokenFile.st = "ok" THEN [found |-> TRUE, tok |-> tokenFile.tok]
    ELSE [found |-> FALSE, tok |-> NoTok]

\* a saveTokens() whose write is lost
saveTokensLost(t) == tokenFile

\* saveTokens(t): the session file after the whole-document write
saveTokens(t) == JsonFile(t)

\* the step wrote the session file
WroteEv(e) == [e EXCEPT !.wrote = TRUE, !.before = tokenFile.st]

\* tokens.expiry_date && tokens.expiry_date < Date.now()
NeedsRefresh(t) == t.exp # 0 /\ t.exp < now

\* the token set of a successful remote exchange (getToken, refresh)
NewTokens == [at |-> issued + 1, exp |-> now + TokenLife]

isReady == isAuthenticated /\ client.set

\* ---------------------------------------------- initialize(), first part
\* The synchronous part of initialize(), up to its return or its await on
\* refreshAccessToken(): its result ("await" when it suspends) ...
InitSyncResult ==
    IF ~IdentityOk THEN "false"
    ELSE IF ~loadTokens.found THEN "false"
    ELSE IF NeedsRefresh(loadTokens.tok) THEN "await"
    ELSE "true"

\* ... the client it leaves in this.oauth2Client ...
InitSyncClient ==
    IF ~IdentityOk THEN client
    ELSE [set |-> TRUE, creds |-> loadTokens.tok, port |-> RedirectPort]

\* ... and the flag it leaves in this.isAuthenticated
InitSyncAuth ==
    IF InitSyncResult = "true" THEN TRUE ELSE isAuthenticated

\* ------------------------------------------------------------- calls
NextCall == nCalls + 1
CanStart == ~crashed /\ nCalls < MaxCalls

\* server.listen(3000) succeeds iff no other listener of this process holds
\* the port
PortFree == \A d \in Calls : srv[d] # "listening"

\* an authenticate() that starts the consent flow although the session is active
AfterInitAlwaysConsents(op, r, cl, ia) ==
    CASE op = "initialize" -> [pc |-> "done", ret |-> r]
      [] op = "authenticate" ->
           IF r = "false" /\ ~cl.set THEN [pc |-> "done", ret |-> "false"]
           ELSE [pc |-> "flow", ret |-> "none"]
      [] op = "setAuthCode" ->
           IF ~cl.set THEN [pc |-> "done", ret |-> "false"]
           ELSE [pc |-> "exchange", ret |-> "none"]

\* an authenticate() that goes on without a client
AfterInitNoIdentityCheck(op, r, cl, ia) ==
    CASE op = "initialize" -> [pc |-> "done", ret |-> r]
      [] op = "authenticate" ->
           IF ia THEN [pc |-> "done", ret |-> "true"]
           ELSE [pc |-> "flow", ret |-> "none"]
      [] op = "setAuthCode" ->
           IF ~cl.set THEN [pc |-> "done", ret |-> "false"]
           ELSE [pc |-> "exchange", ret |-> "none"]

\* an initialize() that goes on to the consent flow when it found no session
AfterInitConsents(op, r, cl, ia) ==
    CASE op = "initialize" ->
           IF r = "false" /\ cl.set /\ ~ia THEN [pc |-> "flow", ret |-> "none"]
           ELSE [pc |-> "done", ret |-> r]
      [] op = "authenticate" ->
           IF r = "false" /\ ~cl.set THEN [pc |-> "done", ret |-> "false"]
           ELSE IF ia THEN [pc |-> "done", ret |-> "true"]
           ELSE [pc |-> "flow", ret |-> "none"]
      [] op = "setAuthCode" ->
           IF ~cl.set THEN [pc |-> "done", ret |-> "false"]
           ELSE [pc |-> "exchange", ret |-> "none"]

\* What a public method does once its initialize() part has returned r,
\* leaving client cl and flag ia: it returns (pc = "done"), suspends in
\* getToken (pc = "exchange") or starts the consent flow (pc = "flow").
AfterInit(op, r, cl, ia) ==
    CASE op = "initialize" -> [pc |-> "done", ret |-> r]
      [] op = "authenticate" ->
           IF r = "false" /\ ~cl.set THEN [pc |-> "done", ret |-> "false"]
           ELSE IF ia THEN [pc |-> "done", ret |-> "true"]
           ELSE [pc |-> "flow", ret |-> "none"]
      [] op = "setAuthCode" ->
           IF ~cl.set THEN [pc |-> "done", ret |-> "false"]
           ELSE [pc |-> "exchange", ret |-> "none"]

\* the record a call leaves in call[c] at program point pc, w = it has
\* written the session file
CallAt(op, pc, w) ==
    IF pc = "done" THEN DoneCall
    ELSE [op |-> op, pc |-> pc, ret |-> "none", wrote |-> w]

\* a generateAuthUrl call that leaves out the forced consent prompt
getAuthUrlNoPrompt(cl) ==
    [redirect |-> cl.port, access |-> "offline", scope |-> "SCOPES",
     prompt |-> ""]

\* the URL getAuthUrl() builds: generateAuthUrl({access_type: "offline",
\* scope: SCOPES, prompt: "consent"})
getAuthUrl(cl) ==
    [redirect |-> cl.port, access |-> "offline", scope |-> "SCOPES",
     prompt |-> "consent"]

\* the URL authenticate() builds and opens: its own generateAuthUrl call
authUrl(cl) ==
    [redirect |-> cl.port, access |-> "offline", scope |-> "SCOPES",
     prompt |-> "consent"]

\* new Promise(...) of authenticate(): createServer, listen(3000) with the
\* browser launch in its callback, setTimeout.  A failed bind emits 'error'
\* on a server without an 'error' listener, which kills the process.
StartFlow(c) ==
    /\ timer' = [timer EXCEPT ![c] = "armed"]
    /\ srv' = [srv EXCEPT ![c] = IF PortFree THEN "listening" ELSE "bindfail"]
    /\ crashed' = ~PortFree
    /\ UNCHANGED <<closes, reqs, nReq>>

NoFlow == UNCHANGED <<flowVars, crashed>>

FlowEv(e, op, c, pc, cl) ==
    IF pc = "flow"
      THEN [e EXCEPT !.op = op, !.c = c, !.flow = TRUE, !.opened = PortFree,
                     !.url = IF PortFree THEN authUrl(cl) ELSE NoUrl]
      ELSE e

\* the first step of public method op as call c
Begin(op) ==
    /\ UNCHANGED sideVars
    /\ CanStart
    /\ LET c == NextCall
           viaInit == op = "initialize" \/ ~client.set
           r == IF viaInit THEN InitSyncResult ELSE "skip"
           cl == IF viaInit THEN InitSyncClient ELSE client
           ia == IF viaInit THEN InitSyncAuth ELSE isAuthenticated
           o == IF r = "await" THEN [pc |-> "refresh", ret |-> "none"]
                ELSE AfterInit(op, r, cl, ia)
       IN /\ client' = cl
          /\ isAuthenticated' = ia
          /\ call' = [call EXCEPT ![c] = CallAt(op, o.pc, FALSE)]
          /\ nCalls' = c
          /\ IF o.pc = "flow" THEN StartFlow(c) ELSE NoFlow
          /\ ev' = FlowEv([NoEv EXCEPT !.op = op, !.c = c, !.ret = o.ret,
                                       !.via = "sync", !.init = viaInit,
                                       !.built = viaInit /\ IdentityOk],
                          op, c, o.pc, cl)
    /\ UNCHANGED <<fileVars, now, issued, revokes>>

InitializeCall == Begin("initialize")
AuthenticateCall == Begin("authenticate")
SetAuthCodeCall == Begin("setAuthCode")

\* refreshAccessToken() settles and initialize() runs to its return; the
\* method that awaited initialize() then continues
RefreshDone(c, ok) ==
    /\ UNCHANGED sideVars
    /\ ~crashed
    /\ call[c].pc = "refresh"
    /\ ok => issued < MaxTok
    /\ LET cl == IF ok THEN [client EXCEPT !.creds = NewTokens] ELSE client
           ia == IF ok THEN TRUE ELSE isAuthenticated
           o == AfterInit(call[c].op, IF ok THEN "true" ELSE "false", cl, ia)
       IN /\ client' = cl
          /\ isAuthenticated' = ia
          /\ tokenFile' = IF ok THEN saveTokens(NewTokens) ELSE tokenFile
          /\ issued' = IF ok THEN issued + 1 ELSE issued
          /\ call' = [call EXCEPT ![c] = CallAt(call[c].op, o.pc, ok)]
          /\ IF o.pc = "flow" THEN StartFlow(c) ELSE NoFlow
          /\ LET e == [FlowEv(RetEv(call[c].op, c, o.ret, "refresh"),
                              call[c].op, c, o.pc, cl)
                         EXCEPT !.op = call[c].op, !.c = c,
                                !.refresh = IF ok THEN "ok" ELSE "fail"]
             IN ev' = IF ok THEN WroteEv(e) ELSE e
    /\ UNCHANGED <<credFile, now, nCalls, revokes>>

\* getToken(code) of setAuthCode() settles
ExchangeDone(c, ok) ==
    /\ UNCHANGED sideVars
    /\ ~crashed
    /\ call[c].pc = "exchange"
    /\ ok => issued < MaxTok
    /\ IF ok
         THEN /\ client' = [client EXCEPT !.creds = NewTokens]
              /\ tokenFile' = saveTokens(NewTokens)
              /\ isAuthenticated' = TRUE
              /\ issued' = issued + 1
              /\ ev' = [WroteEv(RetEv("setAuthCode", c, "true", "exchange"))
                          EXCEPT !.callWrote = TRUE]
         ELSE /\ ev' = [RetEv("setAuthCode", c, "false", "exchange")
                          EXCEPT !.callWrote = call[c].wrote]
              /\ UNCHANGED <<client, tokenFile, isAuthenticated, issued>>
    /\ call' = [call EXCEPT ![c] = DoneCall]
    /\ UNCHANGED <<credFile, now, nCalls, flowVars, procVars>>

\* ----------------------------------------------------- consent flow
\* what resolve(v) makes authenticate() call c return: nothing when the
\* promise is already settled
Resolves(c, v) == IF call[c].ret = "none" THEN v ELSE "none"

\* a handler that resolves and leaves the listener open
ResolveWithoutClose(c, v) ==
    /\ UNCHANGED <<srv, closes>>
    /\ call' = [call EXCEPT ![c].pc = "done",
                            ![c].ret = IF @ = "none" THEN v ELSE @]

\* server.close() followed by resolve(v): the first resolve decides
CloseAndResolve(c, v) ==
    /\ srv' = [srv EXCEPT ![c] = "closed"]
    /\ closes' = [closes EXCEPT ![c] = @ + 1]
    /\ call' = [call EXCEPT ![c].pc = "done",
                            ![c].ret = IF @ = "none" THEN v ELSE @]

\* a request reaches the listener of call c; kind is what the handler sees:
\* "other" (a path that is not /oauth2callback), "nocode", "code", or
\* "throw" (new URL(...) throws)
Request(c, kind) ==
    /\ UNCHANGED sideVars
    /\ ~crashed
    /\ srv[c] = "listening"
    /\ nReq < MaxReq
    /\ nReq' = nReq + 1
    /\ CASE kind = "other" ->
              /\ ev' = [NoEv EXCEPT !.op = "authenticate", !.c = c,
                                    !.via = "other"]
              /\ UNCHANGED <<srv, closes, call, reqs>>
         [] kind = "code" ->
              /\ reqs' = [reqs EXCEPT ![c] = @ + 1]
              /\ ev' = NoEv
              /\ UNCHANGED <<srv, closes, call>>
         [] kind \in {"nocode", "throw"} ->
              /\ CloseAndResolve(c, "false")
              /\ ev' = RetEv("authenticate", c, Resolves(c, "false"), kind)
              /\ UNCHANGED reqs
    /\ UNCHANGED <<fileVars, client, isAuthenticated, now, issued, nCalls,
                   timer, procVars>>

\* getToken(code) of a callback handler settles
CallbackDone(c, ok) ==
    /\ UNCHANGED sideVars
    /\ ~crashed
    /\ reqs[c] > 0
    /\ ok => issued < MaxTok
    /\ reqs' = [reqs EXCEPT ![c] = @ - 1]
    /\ IF ok
         THEN /\ client' = [client EXCEPT !.creds = NewTokens]
              /\ tokenFile' = saveTokens(NewTokens)
              /\ isAuthenticated' = TRUE
              /\ issued' = issued + 1
              /\ CloseAndResolve(c, "true")
              /\ ev' = WroteEv([NoEv EXCEPT !.op = "authenticate", !.c = c,
                                             !.ret = Resolves(c, "true"),
                                             !.via = "code"])
         ELSE /\ UNCHANGED <<client, tokenFile, isAuthenticated, issued>>
              /\ CloseAndResolve(c, "false")
              /\ ev' = RetEv("authenticate", c, Resolves(c, "false"), "catch")
    /\ UNCHANGED <<credFile, now, nCalls, timer, nReq, procVars>>

\* the 5-minute timer of call c fires
Timeout(c) ==
    /\ UNCHANGED sideVars
    /\ ~crashed
    /\ timer[c] = "armed"
    /\ timer' = [timer EXCEPT ![c] = "fired"]
    /\ IF ~isAuthenticated
         THEN /\ CloseAndResolve(c, "false")
              /\ ev' = RetEv("authenticate", c, Resolves(c, "false"), "timeout")
         ELSE /\ ev' = NoEv
              /\ UNCHANGED <<srv, closes, call>>
    /\ UNCHANGED <<fileVars, client, isAuthenticated, now, issued, nCalls,
                   reqs, nReq, procVars>>

\* ------------------------------------------------------------ logout()
\* a logout() that leaves the session file in place
unlinkTokensSkipped == tokenFile

\* if (fs.existsSync(TOKEN_PATH)) fs.unlinkSync(TOKEN_PATH)
unlinkTokens == AbsentFile

\* a revokeCredentials() that only sends the revoke request
revokeKeepsCredentials(cl) == cl

\* oauth2Client.revokeCredentials(): the client forgets its credentials
\* before the revoke request is sent
revokeCredentials(cl) == [cl EXCEPT !.creds = NoTok]

\* unlink the session file, clear the flag, fire-and-forget
\* revokeCredentials(): it drops the client's credentials at once, sends the
\* revoke request, and rejects at once when there is no access credential to
\* revoke.  Nobody handles the rejection: depending on the runtime's
\* unhandled-rejections mode the process is warned or ended (fatal).
Logout(fatal) ==
    /\ UNCHANGED sideVars
    /\ CanStart
    /\ LET c == NextCall
       IN /\ call' = [call EXCEPT ![c] = DoneCall]
          /\ nCalls' = c
          /\ ev' = [RetEv("logout", c, "void", "sync")
                      EXCEPT !.before = tokenFile.st]
    /\ tokenFile' = unlinkTokens
    /\ isAuthenticated' = FALSE
    /\ IF client.set
         THEN /\ client' = revokeCredentials(client)
              /\ IF client.creds.at # 0
                   THEN /\ revokes' = revokes + 1
                        /\ crashed' = FALSE
                        /\ ~fatal
                   ELSE /\ revokes' = revokes
                        /\ crashed' = fatal
         ELSE /\ ~fatal
              /\ UNCHANGED <<client, revokes, crashed>>
    /\ UNCHANGED <<credFile, now, issued, flowVars>>

\* the revoke request settles; a failure is a rejection nobody handles
RevokeDone(ok, fatal) ==
    /\ UNCHANGED sideVars
    /\ ~crashed
    /\ revokes > 0
    /\ ok => ~fatal
    /\ revokes' = revokes - 1
    /\ crashed' = fatal
    /\ ev' = NoEv
    /\ UNCHANGED <<fileVars, client, isAuthenticated, now, issued, call,
                   nCalls, flowVars>>

\* getAuthUrl() called by the tool handlers: null ("absent") without a client
GetAuthUrl ==
    /\ UNCHANGED sideVars
    /\ CanStart
    /\ LET c == NextCall
       IN /\ call' = [call EXCEPT ![c] = DoneCall]
          /\ nCalls' = c
          /\ ev' = [NoEv EXCEPT
                      !.op = "getAuthUrl", !.c = c, !.via = "sync",
                      !.ret = IF client.set THEN "url" ELSE "absent",
                      !.url = IF client.set THEN getAuthUrl(client) ELSE NoUrl]
    /\ UNCHANGED <<fileVars, client, isAuthenticated, now, issued, flowVars,
                   procVars>>

\* ------------------------------------------------- server tool calls
\* tools of the CallTool handler behind this.ensureAuthenticated(): one that
\* exists and a name no branch handles
OtherTools == {"drive_list_files", "no_such_tool"}

\* the text of the error result the catch block builds from the Error
\* ensureAuthenticated() throws: "Error: " + message + getCredentialsPath()
NotAuthenticatedText ==
    <<"Error: ",
      "Not authenticated. Please authenticate first using the google_auth tool or place credentials at ",
      "CREDENTIALS_PATH">>

\* a server that goes on to the service without checking isReady()
ensureAuthenticatedUnchecked == FALSE

\* ensureAuthenticated() throws
ensureAuthenticatedThrows == ~isReady

\* a CallTool request for a tool other than the four authentication tools;
\* ok = the service operation succeeds
ToolCall(name, ok) ==
    /\ UNCHANGED sideVars
    /\ CanStart
    /\ LET c == NextCall
           e == [NoEv EXCEPT !.op = "tool", !.c = c, !.tool = name]
       IN /\ call' = [call EXCEPT ![c] = DoneCall]
          /\ nCalls' = c
          /\ ev' = IF ensureAuthenticatedThrows
                     THEN [e EXCEPT !.isError = TRUE,
                                    !.text = NotAuthenticatedText]
                   ELSE IF name = "no_such_tool"
                     THEN [e EXCEPT !.isError = TRUE,
                                    !.text = <<"Error: ", "Unknown tool: ", name>>]
                   ELSE [e EXCEPT !.service = TRUE, !.isError = ~ok,
                                  !.text = IF ok THEN <<"result">>
                                           ELSE <<"Error: ", "service">>]
    /\ UNCHANGED <<fileVars, client, isAuthenticated, now, issued, flowVars,
                   procVars>>

\* ------------------------------------------------------- environment
\* time passes
Tick ==
    /\ UNCHANGED sideVars
    /\ ~crashed
    /\ now < MaxTime
    /\ now' = now + 1
    /\ ev' = NoEv
    /\ UNCHANGED <<fileVars, client, isAuthenticated, issued, call, nCalls,
                   flowVars, procVars>>

\* the operator provisions, removes or damages the identity file
EnvCredFile(v) ==
    /\ UNCHANGED sideVars
    /\ ~crashed
    /\ v # credFile
    /\ credFile' = v
    /\ ev' = NoEv
    /\ UNCHANGED <<tokenFile, client, isAuthenticated, now, issued, call,
                   nCalls, flowVars, procVars>>

\* the session file is removed or damaged behind the manager's back
EnvFiles == {AbsentFile, CorruptFile, JsonFile(NoTok)}

EnvTokenFile(f) ==
    /\ UNCHANGED sideVars
    /\ ~crashed
    /\ f # tokenFile
    /\ tokenFile' = f
    /\ ev' = NoEv
    /\ UNCHANGED <<credFile, client, isAuthenticated, now, issued, call,
                   nCalls, flowVars, procVars>>

\* ------------------------------------------- ensureDirectoriesExist()
\* what one ensureDirectoriesExist() call did: wasInit = the flag was set
\* when it began, missing = a directory was missing then, fs = file-system
\* calls made (existsSync and mkdirSync), attempts = mkdirSync calls,
\* failed = a mkdirSync threw, threw = the error left the method
NoEnsure == [wasInit |-> FALSE, missing |-> FALSE, fs |-> 0, attempts |-> 0,
             failed |-> FALSE, threw |-> FALSE]

\* dirs: initialized = this.directoriesInitialized, config and data = the
\* directory exists, same = getConfigDir() and getDataDir() are one path
\* (win32, macOS without XDG variables), made = successful creations of each,
\* calls and fails = invocations and failed invocations so far, last = what
\* the last invocation did
DirsReady == [initialized |-> TRUE, config |-> TRUE, data |-> TRUE,
              same |-> FALSE, made |-> [config |-> 0, data |-> 0],
              calls |-> 0, fails |-> 0, last |-> NoEnsure]

\* an ensureDirectoriesExist() without its try/catch
ensureThrowsUncaught(failed) == failed

\* the catch block logs the error and does not rethrow
ensureThrows(failed) == FALSE

\* ensureDirectoriesExist(): failC / failD = mkdirSync of the config / data
\* directory throws if it is called
EnsureDirectoriesExist(failC, failD) ==
    /\ dirs.calls < MaxEnsure
    /\ LET mkC == ~dirs.config
           okC == ~mkC \/ ~failC
           dataThere == IF dirs.same THEN dirs.config \/ (mkC /\ okC)
                        ELSE dirs.data
           mkD == okC /\ ~dataThere
           okD == ~mkD \/ ~failD
           failed == ~(okC /\ okD)
       IN IF dirs.initialized
            THEN dirs' = [dirs EXCEPT !.calls = @ + 1,
                                      !.last = [NoEnsure EXCEPT !.wasInit = TRUE]]
            ELSE dirs' =
                   [dirs EXCEPT
                      !.initialized = ~failed,
                      !.config = @ \/ (mkC /\ okC),
                      !.data = IF dirs.same THEN dirs.config \/ (mkC /\ okC)
                               ELSE @ \/ (mkD /\ okD),
                      !.made = [config |-> @.config + (IF mkC /\ okC THEN 1 ELSE 0),
                                data |-> @.data + (IF mkD /\ okD THEN 1 ELSE 0)],
                      !.calls = @ + 1,
                      !.fails = @ + (IF failed THEN 1 ELSE 0),
                      !.last = [wasInit |-> FALSE,
                                missing |-> ~dirs.config \/ ~dirs.data,
                                fs |-> 1 + (IF mkC THEN 1 ELSE 0)
                                        + (IF okC THEN 1 ELSE 0)
                                        + (IF mkD THEN 1 ELSE 0),
                                attempts |-> (IF mkC THEN 1 ELSE 0)
                                              + (IF mkD THEN 1 ELSE 0),
                                failed |-> failed,
                                threw |-> ensureThrows(failed)]]
    /\ UNCHANGED <<mainVars, rt, tabq>>

\* the operator creates a missing directory (to put the identity file there)
EnvMkdir(which) ==
    /\ ~dirs[which]
    /\ dirs' = IF dirs.same THEN [dirs EXCEPT !.config = TRUE, !.data = TRUE]
               ELSE [dirs EXCEPT ![which] = TRUE]
    /\ UNCHANGED <<mainVars, rt, tabq>>

\* ------------------------------------- saveTokens() then loadTokens()
\* values of a field of Auth.Credentials: undefined (the field is not set),
\* null, a string (a sequence of characters), a number
Undefined == [t |-> "undefined"]
Null == [t |-> "null"]
Str(chars) == [t |-> "string", v |-> chars]
Num(n) == [t |-> "number", v |-> n]

\* characters of the strings: a plain one and the two JSON escapes
Chars == {"a", "\"", "\\"}

Strings == UNION {[1..n -> Chars] : n \in 0..MaxStr}

\* the sessions saved: access_token a string, refresh_token a string, null
\* or unset, expiry_date a number, null or unset, token_type and scope set
\* or unset
Sessions ==
    [access_token : {Str(c) : c \in Strings},
     refresh_token : {Undefined, Null, Str(<<"r", "\\">>)},
     expiry_date : {Undefined, Null} \cup {Num(n) : n \in 0..MaxExpiry},
     token_type : {Undefined, Str(<<"B">>)},
     scope : {Undefined, Str(<<"s", "\"">>)}]

Keys == {"access_token", "refresh_token", "expiry_date", "token_type", "scope"}

Digit(n) == <<"0", "1", "2", "3", "4", "5", "6", "7", "8", "9">>[n + 1]

\* the decimal digits JSON.stringify writes for a non-negative integer
RECURSIVE Digits(_)
Digits(n) == IF n < 10 THEN <<Digit(n)>> ELSE Digits(n \div 10) \o <<Digit(n % 10)>>

\* a JSON.stringify that writes string characters as they are
EscapeNone(chars) == chars

\* JSON.stringify escapes the quote and the backslash of a string
RECURSIVE Escape(_)
Escape(chars) ==
    IF chars = <<>> THEN <<>>
    ELSE (IF Head(chars) \in {"\"", "\\"} THEN <<"\\", Head(chars)>>
          ELSE <<Head(chars)>>) \o Escape(Tail(chars))

\* the text JSON.stringify writes for a value that is not undefined
stringifyValue(v) ==
    CASE v.t = "null" -> <<"null">>
      [] v.t = "number" -> Digits(v.v)
      [] v.t = "string" -> <<"\"">> \o Escape(v.v) \o <<"\"">>

\* JSON.stringify(tokens, null, 2): the members of the document, a property
\* whose value is undefined is left out
stringify(tokens) ==
    [k \in {f \in Keys : tokens[f].t # "undefined"} |-> stringifyValue(tokens[k])]

\* JSON.parse reads a string up to its closing quote, undoing the escapes
RECURSIVE Unescape(_)
Unescape(text) ==
    IF text = <<>> \/ Head(text) = "\"" THEN <<>>
    ELSE IF Head(text) = "\\" THEN <<text[2]>> \o Unescape(Tail(Tail(text)))
    ELSE <<Head(text)>> \o Unescape(Tail(text))

DigitValue(d) == CHOOSE n \in 0..9 : Digit(n) = d

RECURSIVE Number(_)
Number(text) ==
    IF text = <<>> THEN 0
    ELSE 10 * Number(SubSeq(text, 1, Len(text) - 1)) + DigitValue(text[Len(text)])

parseValue(text) ==
    IF text = <<"null">> THEN Null
    ELSE IF Head(text) = "\"" THEN Str(Unescape(Tail(text)))
    ELSE Num(Number(text))

\* JSON.parse(content) as Auth.Credentials: a property the document does not
\* have reads as undefined
parse(doc) ==
    [k \in Keys |-> IF k \in DOMAIN doc THEN parseValue(doc[k]) ELSE Undefined]

NoRoundTrip == [pc |-> "idle"]

\* saveTokens(tokens): writeFileSync(TOKEN_PATH, JSON.stringify(tokens, null, 2))
SaveTokens ==
    /\ rt.pc = "new"
    /\ rt' = [pc |-> "saved", session |-> rt.session, doc |-> stringify(rt.session)]
    /\ UNCHANGED <<mainVars, dirs, tabq>>

\* loadTokens(): JSON.parse(readFileSync(TOKEN_PATH))
LoadTokens ==
    /\ rt.pc = "saved"
    /\ rt' = [pc |-> "loaded", session |-> rt.session, doc |-> rt.doc,
              loaded |-> parse(rt.doc)]
    /\ UNCHANGED <<mainVars, dirs, tabq>>

\* ------------------------------------------- DocsService.getTabContent
\* a document: tabs 1..n in the order the API lists them, parent[i] = the tab
\* that has tab i in its childTabs (0: top level), id[i] = its tabId
Documents ==
    UNION {{[n |-> n, parent |-> p, id |-> i] :
              p \in {f \in [1..n -> 0..n] : \A k \in 1..n : f[k] < k},
              i \in {g \in [1..n -> 1..MaxId] :
                       \A a, b \in 1..n : a # b => g[a] # g[b]}} :
           n \in 0..MaxTabs}

\* tab.childTabs (p = 0: response.data.tabs), in order
RECURSIVE childTabs(_, _, _)
childTabs(doc, p, from) ==
    IF from > doc.n THEN <<>>
    ELSE (IF doc.parent[from] = p THEN <<from>> ELSE <<>>)
           \o childTabs(doc, p, from + 1)

\* null
NoTab == [found |-> FALSE, tab |-> 0, parentTabId |-> 0]

\* a search that hands its own parentTabId down to the children
RECURSIVE findTabKeepingParent(_, _, _, _)
findTabKeepingParent(doc, tabs, tabId, parentTabId) ==
    IF tabs = <<>> THEN NoTab
    ELSE LET tab == Head(tabs)
             kids == childTabs(doc, tab, 1)
             found == IF kids # <<>>
                        THEN findTabKeepingParent(doc, kids, tabId, parentTabId)
                        ELSE NoTab
         IN IF doc.id[tab] = tabId
              THEN [found |-> TRUE, tab |-> tab, parentTabId |-> parentTabId]
            ELSE IF found.found THEN found
            ELSE findTabKeepingParent(doc, Tail(tabs), tabId, parentTabId)

\* findTabWithParent(tabs, tabId, parentTabId): depth first, in order;
\* parentTabId 0 is undefined
RECURSIVE findTabWithParent(_, _, _, _)
findTabWithParent(doc, tabs, tabId, parentTabId) ==
    IF tabs = <<>> THEN NoTab
    ELSE LET tab == Head(tabs)
             kids == childTabs(doc, tab, 1)
             found == IF kids # <<>>
                        THEN findTabWithParent(doc, kids, tabId, doc.id[tab])
                        ELSE NoTab
         IN IF doc.id[tab] = tabId
              THEN [found |-> TRUE, tab |-> tab, parentTabId |-> parentTabId]
            ELSE IF found.found THEN found
            ELSE findTabWithParent(doc, Tail(tabs), tabId, parentTabId)

\* getTabContent(documentId, tabId) on the document the API returned
getTabContent(doc, tabId) ==
    LET tabData == findTabWithParent(doc, childTabs(doc, 0, 1), tabId, 0)
    IN IF ~tabData.found
         THEN [threw |-> TRUE,
               message |-> <<"Tab with ID \"", tabId, "\" not found in document">>]
         ELSE [threw |-> FALSE, tab |-> tabData.tab,
               tabId |-> doc.id[tabData.tab],
               parentTabId |-> tabData.parentTabId]

NoTabQuery == [pc |-> "idle"]

GetTabContent ==
    /\ tabq.pc = "asked"
    /\ tabq' = [tabq EXCEPT !.pc = "done",
                            !.result = getTabContent(tabq.doc, tabq.tabId)]
    /\ UNCHANGED <<mainVars, dirs, rt>>

\* ------------------------------------------------------ specification
\* session files a previous run can have left behind: token set 1 without
\* expiry_date, expired, or valid until the clock moves
InitTokens == {[at |-> 1, exp |-> e] : e \in {0, StartTime - 1, StartTime}}

InitWith(creds) ==
    /\ credFile \in creds
    /\ tokenFile \in {AbsentFile, CorruptFile} \cup {JsonFile(t) : t \in InitTokens}
    /\ client = NullClient
    /\ isAuthenticated = FALSE
    /\ now = StartTime
    /\ issued = 1
    /\ call = [c \in Calls |-> IdleCall]
    /\ nCalls = 0
    /\ srv = [c \in Calls |-> "none"]
    /\ closes = [c \in Calls |-> 0]
    /\ timer = [c \in Calls |-> "none"]
    /\ reqs = [c \in Calls |-> 0]
    /\ nReq = 0
    /\ revokes = 0
    /\ crashed = FALSE
    /\ ev = NoEv

\* the directories exist, nothing is being saved or looked up
SideIdle ==
    /\ dirs = DirsReady
    /\ rt = NoRoundTrip
    /\ tabq = NoTabQuery

\* the process starts beside an identity file that declares its redirect target
Init == InitWith(DeclaredStates) /\ SideIdle

Next ==
    \/ InitializeCall
    \/ AuthenticateCall
    \/ SetAuthCodeCall
    \/ \E fatal \in BOOLEAN : Logout(fatal)
    \/ GetAuthUrl
    \/ \E c \in Calls, ok \in BOOLEAN : RefreshDone(c, ok)
    \/ \E c \in Calls, ok \in BOOLEAN : ExchangeDone(c, ok)
    \/ \E c \in Calls, k \in {"other", "nocode", "code", "throw"} : Request(c, k)
    \/ \E c \in Calls, ok \in BOOLEAN : CallbackDone(c, ok)
    \/ \E c \in Calls : Timeout(c)
    \/ \E ok \in BOOLEAN, fatal \in BOOLEAN : RevokeDone(ok, fatal)
    \/ Tick
    \/ \E v \in DeclaredStates : EnvCredFile(v)
    \/ \E f \in EnvFiles : EnvTokenFile(f)

Spec == Init /\ [][Next]_vars

\* the identity file in every shape, also complete without a redirect target;
\* the session is never logged out and its file is left to the program
InitIdentity == InitWith(CredStates) /\ SideIdle

NextIdentity ==
    \/ InitializeCall
    \/ AuthenticateCall
    \/ SetAuthCodeCall
    \/ GetAuthUrl
    \/ \E c \in Calls, ok \in BOOLEAN : RefreshDone(c, ok)
    \/ \E c \in Calls, ok \in BOOLEAN : ExchangeDone(c, ok)
    \/ \E c \in Calls, k \in {"other", "nocode", "code", "throw"} : Request(c, k)
    \/ \E c \in Calls, ok \in BOOLEAN : CallbackDone(c, ok)
    \/ \E c \in Calls : Timeout(c)
    \/ Tick
    \/ \E v \in CredStates : EnvCredFile(v)

SpecIdentity == InitIdentity /\ [][NextIdentity]_vars

\* the session file is touched by the manager alone: it starts absent or as a
\* previous run left it, and the server takes tool calls
InitOwned ==
    /\ Init
    /\ tokenFile \in {AbsentFile} \cup {JsonFile(t) : t \in InitTokens}

NextOwned ==
    \/ InitializeCall
    \/ AuthenticateCall
    \/ SetAuthCodeCall
    \/ \E fatal \in BOOLEAN : Logout(fatal)
    \/ \E name \in OtherTools, ok \in BOOLEAN : ToolCall(name, ok)
    \/ \E c \in Calls, ok \in BOOLEAN : RefreshDone(c, ok)
    \/ \E c \in Calls, ok \in BOOLEAN : ExchangeDone(c, ok)
    \/ \E c \in Calls, k \in {"other", "nocode", "code", "throw"} : Request(c, k)
    \/ \E c \in Calls, ok \in BOOLEAN : CallbackDone(c, ok)
    \/ \E c \in Calls : Timeout(c)
    \/ \E ok \in BOOLEAN, fatal \in BOOLEAN : RevokeDone(ok, fatal)
    \/ Tick
    \/ \E v \in DeclaredStates : EnvCredFile(v)

SpecOwned == InitOwned /\ [][NextOwned]_vars

\* the session file can become absent or unparsable between calls, and
\* nothing else happens to it behind the manager's back
LostFiles == {AbsentFile, CorruptFile}

NextLost ==
    \/ InitializeCall
    \/ AuthenticateCall
    \/ SetAuthCodeCall
    \/ \E fatal \in BOOLEAN : Logout(fatal)
    \/ \E c \in Calls, ok \in BOOLEAN : RefreshDone(c, ok)
    \/ \E c \in Calls, ok \in BOOLEAN : ExchangeDone(c, ok)
    \/ \E c \in Calls, k \in {"other", "nocode", "code", "throw"} : Request(c, k)
    \/ \E c \in Calls, ok \in BOOLEAN : CallbackDone(c, ok)
    \/ \E c \in Calls : Timeout(c)
    \/ \E ok \in BOOLEAN, fatal \in BOOLEAN : RevokeDone(ok, fatal)
    \/ Tick
    \/ \E v \in DeclaredStates : EnvCredFile(v)
    \/ \E f \in LostFiles : EnvTokenFile(f)

SpecLost == Init /\ [][NextLost]_vars

\* the manager idle, before any call
Parked == InitWith({"none"}) /\ tokenFile = AbsentFile

\* the constructor's ensureDirectoriesExist() is about to run
InitDirs ==
    /\ Parked
    /\ rt = NoRoundTrip
    /\ tabq = NoTabQuery
    /\ \E c \in BOOLEAN, d \in BOOLEAN, s \in BOOLEAN :
          /\ s => (c = d)
          /\ dirs = [DirsReady EXCEPT !.initialized = FALSE, !.config = c,
                                      !.data = d, !.same = s]

NextDirs ==
    \/ \E failC \in BOOLEAN, failD \in BOOLEAN :
          EnsureDirectoriesExist(failC, failD)
    \/ \E which \in {"config", "data"} : EnvMkdir(which)

SpecDirs == InitDirs /\ [][NextDirs]_vars

\* a session is about to be saved
InitRoundTrip ==
    /\ Parked
    /\ dirs = DirsReady
    /\ tabq = NoTabQuery
    /\ \E s \in Sessions : rt = [pc |-> "new", session |-> s]

NextRoundTrip ==
    \/ SaveTokens
    \/ LoadTokens

SpecRoundTrip == InitRoundTrip /\ [][NextRoundTrip]_vars

\* a tab of a document is asked for
InitTabs ==
    /\ Parked
    /\ dirs = DirsReady
    /\ rt = NoRoundTrip
    /\ \E d \in Documents, t \in 1..MaxId :
          tabq = [pc |-> "asked", doc |-> d, tabId |-> t, result |-> NoTab]

NextTabs == GetTabContent

SpecTabs == InitTabs /\ [][NextTabs]_vars

TypeOK ==
    /\ credFile \in CredStates
    /\ tokenFile.st \in {"absent", "corrupt", "ok"}
    /\ client.set \in BOOLEAN
    /\ isAuthenticated \in BOOLEAN
    /\ nCalls \in 0..MaxCalls
    /\ issued \in 1..MaxTok

\* ------------------------------------------------------------- claims
\* the token set of the remote exchange that succeeded in the step just taken
LastIssued == [at |-> issued, exp |-> now + TokenLife]

\* C1: every listener created by authenticate() has close() invoked on it at
\* most once, whichever outcome ended the flow and also when the timer fires
\* after the flow has ended.
C1_ListenerClosedOnce == \A c \in Calls : closes[c] <= 1

\* C2: when the timer of a consent flow has fired and no request had reached
\* the listener, authenticate() has resolved false and the listener is
\* closed, whatever other public methods ran while the flow was pending.
C2_TimeoutResolvesFalse ==
    \A c \in Calls :
        (timer[c] = "fired" /\ nReq = 0) =>
            (call[c].ret = "false" /\ srv[c] = "closed")

\* C3: at most one consent flow is in flight: no listener is created for an
\* authenticate() call while the flow of an earlier call is still pending.
C3_AtMostOneFlow ==
    Cardinality({c \in Calls : call[c].pc = "flow" /\ srv[c] # "none"}) <= 1

\* C4: whenever initialize() returns false, isReady() is false right after.
C4_InitializeFalseNotReady ==
    (ev.op = "initialize" /\ ev.ret = "false") => ~isReady

\* C5: when the refresh exchange of initialize() succeeds, initialize()
\* returns true, the session file and the in-memory client hold the refreshed
\* token set, which is not expired, and isReady() is true.
C5_RefreshSuccess ==
    (ev.op = "initialize" /\ ev.refresh = "ok") =>
        /\ ev.ret = "true"
        /\ tokenFile = JsonFile(LastIssued)
        /\ client.creds = LastIssued
        /\ ~NeedsRefresh(LastIssued)
        /\ isReady

C5_Witness ==
    ev.op = "initialize" /\ ev.refresh = "ok" /\ ev.before = "ok"

\* C6: initialize() never starts a consent flow: only a step of an
\* authenticate() call creates a listener, arms the timer or launches the
\* browser, and every listener and timer belongs to an authenticate() call.
C6_InitializeNeverConsents ==
    /\ (ev.flow \/ ev.opened) => ev.op = "authenticate"
    /\ \A c \in Calls :
         (srv[c] # "none" \/ timer[c] # "none") => call[c].op = "authenticate"

C6_Witness ==
    /\ ev.op = "initialize" /\ ev.ret = "false"
    /\ client.set /\ ~isAuthenticated
    /\ \A c \in Calls : srv[c] = "none" /\ timer[c] = "none"

\* C7: right after logout() returns, isReady() is false and the session file
\* does not exist.
C7_LogoutClears ==
    ev.op = "logout" => (~isReady /\ tokenFile.st = "absent")

C7_Witness ==
    ev.op = "logout" /\ ev.before = "ok" /\ client.set /\ ~crashed

\* C8: right after logout() returns, the client returned by getClient()
\* carries no credential.
C8_LogoutClearsMemory ==
    ev.op = "logout" => (client.creds = NoTok /\ ~isAuthenticated)

C8_Witness ==
    ev.op = "logout" /\ client.set /\ revokes > 0

\* C9: when the refresh exchange of initialize() fails, the in-memory client
\* holds no credential afterwards and the session file was not written.
C9_NoPartialCredential ==
    (ev.op = "initialize" /\ ev.refresh = "fail") =>
        (client.creds = NoTok /\ ~ev.wrote)

C11_FailedExchangeLeavesFile ==
    (ev.op = "setAuthCode" /\ ev.via = "exchange" /\ ev.ret = "false")
        => ~ev.callWrote

\* C12: isReady() is true exactly when a session is held in memory and the
\* most recent load, refresh or code exchange succeeded: right after one of
\* them failed isReady() is false, right after one succeeded it is true, and
\* while it is true the client holds a session.
C12_ReadyIffLastSucceeded ==
    LET loadFailed == /\ ev.init /\ ev.via = "sync"
                      /\ (~ev.built \/ tokenFile.st # "ok")
        loaded == /\ ev.built /\ ev.via = "sync" /\ tokenFile.st = "ok"
                  /\ ~NeedsRefresh(tokenFile.tok)
        failed == \/ loadFailed
                  \/ ev.refresh = "fail"
                  \/ (ev.via = "exchange" /\ ev.ret = "false")
                  \/ ev.via = "catch"
        succeeded == \/ loaded
                     \/ ev.refresh = "ok"
                     \/ (ev.via = "exchange" /\ ev.ret = "true")
                     \/ ev.via = "code"
    IN /\ failed => ~isReady
       /\ succeeded => isReady
       /\ isReady => client.creds # NoTok

\* C13 as stated: an identity file missing the client identifier, the client
\* secret or the redirect target is treated as absent: initialize() returns
\* false and builds no client to load or refresh a session with.
C13_PartialTreatedAbsent ==
    (/\ ev.op = "initialize" /\ ev.via = "sync"
     /\ credFile \in {"partial", "noredirect"})
        => (ev.ret = "false" /\ ~ev.built)

\* C13: an identity file missing the client identifier or the client secret
\* is treated as absent: initialize() returns false, builds no client, and
\* neither refreshes nor writes a session; an identity file that only lacks
\* the redirect target is accepted, its client built with the default
\* redirect target on port 3000.
C13_IncompleteIdentity ==
    /\ (ev.init /\ ev.via = "sync" /\ credFile \in {"none", "partial"})
          => /\ ~ev.built
             /\ ev.refresh = "none" /\ ~ev.wrote
             /\ call[ev.c] = DoneCall
             /\ ev.op = "initialize" => ev.ret = "false"
    /\ (ev.init /\ ev.via = "sync" /\ credFile = "noredirect")
          => /\ ev.built
             /\ client.set /\ client.port = DefaultRedirectPort
             /\ (ev.op = "initialize" /\ tokenFile.st = "ok"
                   /\ ~NeedsRefresh(tokenFile.tok)) => ev.ret = "true"

C13_Witness ==
    /\ ev.op = "initialize" /\ ev.ret = "false"
    /\ credFile = "partial" /\ tokenFile.st = "ok" /\ ~client.set

\* C14: a getAuthUrl() step changes nothing in memory or on disk, starts no
\* listener or timer and opens no browser; it returns absent iff no client
\* is built, and otherwise the URL authenticate() would open with that client.
C14_GetAuthUrlPure ==
    [][ev'.op = "getAuthUrl" =>
         /\ UNCHANGED <<fileVars, client, isAuthenticated, now, issued,
                        flowVars, procVars>>
         /\ ~ev'.opened /\ ~ev'.flow
         /\ ev'.ret = (IF client.set THEN "url" ELSE "absent")
         /\ ev'.url = (IF client.set THEN authUrl(client) ELSE NoUrl)]_vars

C14_Witness ==
    ev.op = "getAuthUrl" /\ ev.ret = "url" /\ ~isAuthenticated

\* C15 as stated: every authenticate() first runs initialize(), and one that
\* returns true at once has started no listener, timer or browser.
C15_AlwaysReentersInitialize ==
    (ev.op = "authenticate" /\ ev.via = "sync")
        => /\ ev.init
           /\ ev.ret = "true" => (~ev.flow /\ ~ev.opened)

\* C15: authenticate() runs initialize() first exactly when no client is
\* built yet; when the session is active, before the call or after that
\* initialize(), it returns true at once and leaves every listener and timer
\* as it was and opens no browser.
C15_ActiveSessionShortCircuits ==
    [][(ev'.op = "authenticate" /\ ev'.via = "sync") =>
         /\ ev'.init <=> ~client.set
         /\ isReady => ev'.ret = "true"
         /\ ev'.ret = "true" =>
               /\ UNCHANGED flowVars
               /\ ~ev'.flow /\ ~ev'.opened
               /\ isReady']_vars

C15_Witness ==
    /\ ev.op = "authenticate" /\ ev.via = "sync" /\ ~ev.init
    /\ ev.ret = "true"
    /\ srv[ev.c] = "none" /\ timer[ev.c] = "none"

\* C16: an authenticate() that finds no client built and no usable identity
\* file returns false at once: no listener, no timer, no browser.
C16_AbsentIdentityStops ==
    (ev.op = "authenticate" /\ ev.via = "sync" /\ ev.init /\ ~IdentityOk)
        => /\ ev.ret = "false"
           /\ ~ev.flow /\ ~ev.opened
           /\ srv[ev.c] = "none" /\ timer[ev.c] = "none"
           /\ call[ev.c] = DoneCall

C16_Witness ==
    /\ ev.op = "authenticate" /\ ev.init /\ ev.ret = "false"
    /\ credFile = "none" /\ ~client.set

\* C17: when a callback with a code makes authenticate() resolve true, the
\* session of that exchange is in the client and in the session file,
\* isReady() is true and the listener is closed.
C17_ResolveTrueAfterPersist ==
    (ev.op = "authenticate" /\ ev.via = "code" /\ ev.ret = "true")
        => /\ client.creds = LastIssued
           /\ tokenFile = JsonFile(LastIssued)
           /\ isReady
           /\ srv[ev.c] = "closed" /\ closes[ev.c] >= 1
           /\ call[ev.c].ret = "true"

C17_Witness ==
    /\ ev.op = "authenticate" /\ ev.via = "code" /\ ev.ret = "true"
    /\ ev.wrote /\ ev.before = "absent"

\* C18: once a consent flow has resolved, a callback of that flow whose code
\* exchange completes afterwards writes no session and does not make
\* isReady() true.
C18_FirstWriterWins ==
    (ev.op = "authenticate" /\ ev.via = "code" /\ ev.ret = "none")
        => (~ev.wrote /\ ~isReady)

\* C19: the listener a consent flow opens is bound to the port of the
\* redirect target of the client's identity.
C19_ListenerOnRedirectPort ==
    (ev.flow /\ ev.opened) => ListenPort = ev.url.redirect

\* C20: after the listener of a flow has handled a request, whatever its
\* path or query, the listener is closed and the flow is resolved.
C20_OneRequestCloses ==
    (/\ ev.op = "authenticate"
     /\ ev.via \in {"other", "nocode", "throw", "code", "catch"})
        => (srv[ev.c] = "closed" /\ call[ev.c].ret # "none")

\* C21: no failure inside a public method escapes it: no step of the manager
\* ends the process with an error or rejection that nobody handles.
C21_NothingEscapes == ~crashed

\* C22: there is no retry: the listener of one authenticate() call never has
\* more than one code exchange of its own under way.
C22_NoRetry == \A c \in Calls : reqs[c] <= 1

\* C23: at every moment at most one remote exchange is in flight, counting
\* the refresh or code exchange each call is suspended in and the code
\* exchanges of the callback handlers.
C23_OneExchangeInFlight ==
    Cardinality({c \in Calls : call[c].pc \in {"refresh", "exchange"}})
      + Cardinality({x \in Calls \X (1..MaxReq) : x[2] <= reqs[x[1]]}) <= 1

\* C24: in every state the session file is absent or holds the whole token
\* set of the most recent successful exchange or refresh; every step that
\* changes it either writes the token set the step obtained or is the
\* deletion by logout().
C24_FileIsLastExchange ==
    /\ [](\/ tokenFile.st = "absent"
          \/ tokenFile.st = "ok" /\ tokenFile.tok.at = issued)
    /\ [][tokenFile' # tokenFile =>
            \/ /\ tokenFile' = JsonFile(LastIssued')
               /\ issued' = issued + 1
               /\ ev'.wrote
            \/ /\ tokenFile' = AbsentFile
               /\ ev'.op = "logout"]_vars

C24_Witness ==
    /\ ev.wrote /\ ev.via = "exchange" /\ ev.before = "ok"
    /\ tokenFile = JsonFile(LastIssued)

\* C28: whenever isReady() is true the client holds session credentials.
C28_ReadyClientHasCredentials == isReady => client.creds # NoTok

\* C29: in the step that follows a logout(), unless it is a new call, isReady()
\* stays false and the session file is not written.
C29_LogoutStaysLoggedOut ==
    [][(ev.op = "logout" /\ nCalls' = nCalls)
          => (~isReady' /\ ~ev'.wrote)]_vars

\* C30: a tool call behind ensureAuthenticated() that arrives while isReady()
\* is false invokes no service operation and returns an error result with
\* the fixed not-authenticated text naming the credentials path.
C30_ToolCallNeedsSession ==
    (ev.op = "tool" /\ ~isReady)
        => /\ ~ev.service
           /\ ev.isError
           /\ ev.text = NotAuthenticatedText

C30_Witness ==
    /\ ev.op = "tool" /\ ev.tool = "drive_list_files" /\ ev.isError
    /\ client.set /\ client.creds = NoTok /\ tokenFile.st = "absent"

\* C25: ensureDirectoriesExist() never lets an error out and creates each
\* directory at most once; a call that finds the flag set makes no
\* file-system call; a failed attempt leaves the flag unset, and a call that
\* finds the flag unset and a directory missing attempts the creation.
C25_EnsureIdempotent ==
    /\ ~dirs.last.threw
    /\ dirs.made.config <= 1 /\ dirs.made.data <= 1
    /\ dirs.last.wasInit => (dirs.last.fs = 0 /\ dirs.initialized)
    /\ dirs.last.failed => ~dirs.initialized
    /\ (dirs.calls > 0 /\ ~dirs.last.wasInit /\ dirs.last.missing)
          => dirs.last.attempts >= 1

C25_Witness ==
    /\ dirs.fails >= 1 /\ dirs.initialized /\ dirs.last.wasInit
    /\ dirs.made.config = 1 /\ dirs.made.data = 1

\* C26: the session loaded right after a save equals the session saved, field
\* for field.
C26_RoundTrip ==
    rt.pc = "loaded" => \A k \in Keys : rt.loaded[k] = rt.session[k]

C26_Witness ==
    /\ rt.pc = "loaded"
    /\ rt.session.refresh_token = Null
    /\ rt.session.expiry_date = Num(MaxExpiry)
    /\ rt.session.access_token = Str(<<"\\", "\"">>)
    /\ rt.session.scope = Undefined

\* C27: getTabContent throws exactly when no tab of the document has the id
\* asked for, with the not-found message; otherwise it returns the tab with
\* that id and the id of the tab whose childTabs hold it, undefined (0) for a
\* top-level tab.
C27_TabFoundWithParent ==
    tabq.pc = "done" =>
      LET d == tabq.doc
          r == tabq.result
          hits == {i \in 1..d.n : d.id[i] = tabq.tabId}
      IN /\ r.threw <=> hits = {}
         /\ r.threw => r.message = <<"Tab with ID \"", tabq.tabId,
                                     "\" not found in document">>
         /\ ~r.threw =>
              /\ r.tab \in hits
              /\ r.tabId = tabq.tabId
              /\ r.parentTabId = IF d.parent[r.tab] = 0 THEN 0
                                 ELSE d.id[d.parent[r.tab]]

C27_Witness ==
    /\ tabq.pc = "done" /\ ~tabq.result.threw
    /\ tabq.doc.parent[tabq.result.tab] # 0
    /\ tabq.doc.parent[tabq.doc.parent[tabq.result.tab]] # 0
    /\ tabq.result.parentTabId = tabq.doc.id[tabq.doc.parent[tabq.result.tab]]

====
